---- MODULE Spec2Model ----
(***************************************************************************)
(* ThumbnailGenerator (src/src/index.js): option resolution and the        *)
(* single-shot orchestration of the external engine (fluent-ffmpeg) and    *)
(* of the deletion utility (del).                                          *)
(*                                                                         *)
(* A call slot c holds one call of a public operation on one generator.    *)
(* JavaScript values are tagged tuples: <<"files", list>>, <<"file", f>>,  *)
(* <<"path", kind, n>>, <<"error", e>>, <<"undefined">>, <<"null">>.       *)
(* An optional argument is <<>> (undefined) or <<object>>.                 *)
(* An options object is a function from its own keys to their values.      *)
(*                                                                         *)
(* The operations share no state but the caller's options record, the      *)
(* clock and the temp directory, so four specifications cover them:        *)
(*   SpecThumb      generate and generateOneByPercent                      *)
(*   SpecGif        generatePalette and generateGif, with the clock, the   *)
(*                  palette files and the deletion utility                 *)
(*   SpecCb         the four callback-style adapters                       *)
(*   SpecAnyNotify  an engine that may deliver both 'end' and 'error'      *)
(* In the first three an engine invocation delivers one terminal           *)
(* notification, as fluent-ffmpeg does.                                    *)
(***************************************************************************)
EXTENDS Integers, Sequences, FiniteSets, TLC

\* ------------------------------------------------------------------ bounds
NumCalls == 2
MaxClock == 1

Calls == 1..NumCalls
Times == 0..MaxClock

\* ------------------------------------------------------------------ inputs
Errors == {"e1", "e2"}
FileLists == {<<>>, <<"a.png", "b.png">>}
Percents == {-1, 0, 100, 101}
PercentStr(percent) == <<percent, "%">>

EmptyRec == [k \in {} |-> 0]
ThumbOpts == {EmptyRec, [count |-> 5], [count |-> 5, timestamps |-> <<PercentStr(50)>>]}
GifOpts == {[deletePalette |-> "false"], [deletePalette |-> "1"], [fileName |-> "out.gif", offset |-> "3"]}

Undefined == <<>>
Ref(object) == <<object>>

\* ---------------------------------------------------------------- promises
NoPromise == [state |-> "none", value |-> <<"none">>]
Pending == [state |-> "pending", value |-> <<"none">>]
Resolved(v) == [state |-> "resolved", value |-> v]
Rejected(v) == [state |-> "rejected", value |-> v]
\* resolve/reject of a promise that is already settled is a no-op
Settle(p, outcome) == IF p.state = "pending" THEN outcome ELSE p
Err(e) == <<"error", e>>

\* ------------------------------------------------------------------ lodash
Object(x) == IF Len(x) = 0 THEN EmptyRec ELSE x[1]
assignIn(object, source) ==
  LET o == Object(object)
  IN  IF Len(source) = 0 THEN o
      ELSE [k \in (DOMAIN o) \cup (DOMAIN source[1]) |->
              IF k \in DOMAIN source[1] THEN source[1][k] ELSE o[k]]
Truthy(conf, key) == key \in DOMAIN conf

VARIABLES call, conf, engines, filenameArray, palPromise, result, delLog, fs,
          clock, callerOpts, opts0, cbLog, cbChain

vars == <<call, conf, engines, filenameArray, palPromise, result, delLog, fs,
          clock, callerOpts, opts0, cbLog, cbChain>>

NoCall == [op |-> "idle", percent |-> 0, hasOpts |-> FALSE, cb |-> "none", at |-> 0]

InitWith(OptsDomain) ==
  /\ call = [c \in Calls |-> NoCall]
  /\ conf = [c \in Calls |-> EmptyRec]
  /\ engines = [c \in Calls |-> <<>>]
  /\ filenameArray = [c \in Calls |-> <<>>]
  /\ palPromise = [c \in Calls |-> NoPromise]
  /\ result = [c \in Calls |-> NoPromise]
  /\ delLog = [c \in Calls |-> <<>>]
  /\ fs = [t \in Times |-> 0]
  /\ clock = 0
  /\ callerOpts \in OptsDomain
  /\ opts0 = callerOpts
  /\ cbLog = [c \in Calls |-> <<>>]
  /\ cbChain = [c \in Calls |-> "none"]

\* slot c is free for the c-th call made on the generator
Free(c) == call[c].op = "idle" /\ (IF c = 1 THEN TRUE ELSE call[c - 1].op # "idle")

\* the options argument of a call: the caller's record, or undefined
Arg(hasOpts) == IF hasOpts THEN Ref(callerOpts) ELSE Undefined

\* one engine invocation: what it was started with, what it has reported
Engine(kind, args) == [kind |-> kind, args |-> args, filenames |-> <<>>, log |-> <<>>]
Started(c, i) == Len(engines[c]) >= i
Running(c, i) == Started(c, i) /\ engines[c][i].log = <<>>
Notify(c, i, ev) == [engines EXCEPT ![c][i].log = Append(@, ev)]
\* a terminal notification after the first one, each kind at most once
Late(c, i, kind) ==
  /\ Started(c, i)
  /\ engines[c][i].log # <<>>
  /\ Len(engines[c][i].log) < 2
  /\ IF kind = "end" THEN engines[c][i].log[1] # "end" ELSE engines[c][i].log[1] = "end"

\* ---------------------------------------------------------------- generate
DefaultSettings ==
  [folder |-> "thumbnailPath", count |-> 10, size |-> "undefined",
   filename |-> "%b-thumbnail-%r-%000i", logger |-> "null"]

\* generate(opts), lines 112-140: resolve the settings, start screenshots
DoGenerate(c, opts) ==
  LET settings == assignIn(Ref(DefaultSettings), opts)
  IN  /\ conf' = [conf EXCEPT ![c] = settings]
      /\ engines' = [engines EXCEPT ![c] = Append(@, Engine("screenshots", settings))]
      /\ filenameArray' = [filenameArray EXCEPT ![c] = <<>>]
      /\ result' = [result EXCEPT ![c] = Pending]

Chain(cb) == IF cb = "none" THEN "none" ELSE "pending"

Generate(c, hasOpts, cb) ==
  /\ Free(c)
  /\ call' = [call EXCEPT ![c] = [NoCall EXCEPT !.op = "generate", !.hasOpts = hasOpts, !.cb = cb]]
  /\ DoGenerate(c, Arg(hasOpts))
  /\ cbChain' = [cbChain EXCEPT ![c] = Chain(cb)]
  /\ UNCHANGED <<palPromise, delLog, fs, clock, callerOpts, opts0, cbLog>>

generate(c, hasOpts) == Generate(c, hasOpts, "none")

\* ---------------------------------------------------- generateOneByPercent
PercentError == Err("Percent must be a value from 0-100")

\* the range check with the boundaries excluded
PercentOutOfRangeStrict(percent) == percent <= 0 \/ percent >= 100

PercentOutOfRange(percent) == percent < 0 \/ percent > 100

GenerateOneByPercent(c, percent, hasOpts, cb) ==
  /\ Free(c)
  /\ call' = [call EXCEPT ![c] = [NoCall EXCEPT !.op = "generateOneByPercent",
                                   !.percent = percent, !.hasOpts = hasOpts, !.cb = cb]]
  /\ cbChain' = [cbChain EXCEPT ![c] = Chain(cb)]
  /\ IF PercentOutOfRange(percent)
     THEN /\ result' = [result EXCEPT ![c] = Rejected(PercentError)]
          /\ UNCHANGED <<conf, engines, filenameArray, callerOpts>>
     ELSE LET merged == assignIn(Arg(hasOpts),
                                 Ref([count |-> 1, timestamps |-> <<PercentStr(percent)>>]))
          IN  /\ callerOpts' = IF hasOpts THEN merged ELSE callerOpts
              /\ DoGenerate(c, Ref(merged))
  /\ UNCHANGED <<palPromise, delLog, fs, clock, opts0, cbLog>>

generateOneByPercent(c, percent, hasOpts) == GenerateOneByPercent(c, percent, hasOpts, "none")

\* result.pop(), line 70
pop(list) == IF Len(list) = 0 THEN <<"undefined">> ELSE <<"file", list[Len(list)]>>

IsThumb(c) == call[c].op \in {"generate", "generateOneByPercent"}

\* what the promise returned to the caller resolves to when generate's does
ThumbValue(c, list) ==
  IF call[c].op = "generateOneByPercent" THEN pop(list) ELSE <<"files", list>>

ThumbFrame == UNCHANGED <<call, conf, palPromise, delLog, fs, clock, callerOpts, opts0,
                          cbLog, cbChain>>

\* function filenames(fns), lines 130-132
filenames(c, fns) ==
  /\ IsThumb(c)
  /\ Running(c, 1)
  /\ filenameArray' = [filenameArray EXCEPT ![c] = fns]
  /\ engines' = [engines EXCEPT ![c][1].filenames = fns]
  /\ UNCHANGED result
  /\ ThumbFrame

\* function complete(), lines 126-128, on 'end'
OnComplete(c) ==
  /\ engines' = Notify(c, 1, "end")
  /\ result' = [result EXCEPT ![c] = Settle(@, Resolved(ThumbValue(c, filenameArray[c])))]
  /\ UNCHANGED filenameArray
  /\ ThumbFrame

\* an error handler that hands back the filenames received so far
OnErrorPartial(c, e) ==
  /\ engines' = Notify(c, 1, e)
  /\ result' = [result EXCEPT ![c] = Settle(@, Resolved(ThumbValue(c, filenameArray[c])))]
  /\ UNCHANGED filenameArray
  /\ ThumbFrame

\* reject, line 137, on 'error'
OnError(c, e) ==
  /\ engines' = Notify(c, 1, e)
  /\ result' = [result EXCEPT ![c] = Settle(@, Rejected(Err(e)))]
  /\ UNCHANGED filenameArray
  /\ ThumbFrame

complete(c) == IsThumb(c) /\ Running(c, 1) /\ OnComplete(c)
reject(c, e) == IsThumb(c) /\ Running(c, 1) /\ OnError(c, e)

InitThumb == InitWith(ThumbOpts)

NextThumb ==
  \E c \in Calls :
    \/ \E h \in BOOLEAN : generate(c, h)
    \/ \E p \in Percents, h \in BOOLEAN : generateOneByPercent(c, p, h)
    \/ \E fns \in FileLists : filenames(c, fns)
    \/ complete(c)
    \/ \E e \in Errors : reject(c, e)

SpecThumb == InitThumb /\ [][NextThumb]_vars

\* --------------------------------------------------------- generatePalette
DefaultPaletteOpts == [videoFilters |-> "fps=10,scale=320:-1:flags=lanczos,palettegen"]

\* a palette path that does not depend on the time
PalettePathFixed(now) == <<"path", "palette", 0>>

\* `${this.tmpDir}/palette-${Date.now()}.png`, line 193
PalettePath(now) == <<"path", "palette", now>>

\* -ss and -t input options, lines 200-206 and 270-276
TimeOptions(cf) ==
  (IF Truthy(cf, "offset") THEN <<<<"-ss", cf.offset>>>> ELSE <<>>)
  \o (IF Truthy(cf, "duration") THEN <<<<"-t", cf.duration>>>> ELSE <<>>)

\* generatePalette(opts), lines 181-216, called at time now
PaletteEngine(opts, now) ==
  LET cf == assignIn(Ref(DefaultPaletteOpts), opts)
  IN  Engine("palette", [inputOptions |-> <<<<"-y">>>> \o TimeOptions(cf),
                         outputOptions |-> <<<<"-vf", cf.videoFilters>>>>,
                         output |-> PalettePath(now)])

GeneratePalette(c, hasOpts, cb) ==
  /\ Free(c)
  /\ call' = [call EXCEPT ![c] = [NoCall EXCEPT !.op = "generatePalette",
                                   !.hasOpts = hasOpts, !.cb = cb, !.at = clock]]
  /\ conf' = [conf EXCEPT ![c] = assignIn(Ref(DefaultPaletteOpts), Arg(hasOpts))]
  /\ engines' = [engines EXCEPT ![c] = Append(@, PaletteEngine(Arg(hasOpts), clock))]
  /\ palPromise' = [palPromise EXCEPT ![c] = Pending]
  /\ result' = [result EXCEPT ![c] = Pending]
  /\ cbChain' = [cbChain EXCEPT ![c] = Chain(cb)]
  /\ UNCHANGED <<filenameArray, delLog, fs, clock, callerOpts, opts0, cbLog>>

generatePalette(c, hasOpts) == GeneratePalette(c, hasOpts, "none")

\* ------------------------------------------------------------- generateGif
DefaultGifOpts == [fps |-> "0.75", scale |-> "180", speedMultiplier |-> "4",
                   deletePalette |-> "true"]

\* conf.fileName || `video-${Date.now()}.gif`, lines 265-266
GifOutput(cf, now) ==
  IF Truthy(cf, "fileName") THEN <<"path", cf.fileName, 0>> ELSE <<"path", "video", now>>

\* generateGif(opts), lines 254-302, up to the return: the palette step is
\* started with no options. The two reads of Date.now() (lines 265 and 193)
\* happen in one synchronous run and see one value of the clock
GenerateGif(c, hasOpts, cb) ==
  /\ Free(c)
  /\ call' = [call EXCEPT ![c] = [NoCall EXCEPT !.op = "generateGif",
                                   !.hasOpts = hasOpts, !.cb = cb, !.at = clock]]
  /\ conf' = [conf EXCEPT ![c] = assignIn(Ref(DefaultGifOpts), Arg(hasOpts))]
  /\ engines' = [engines EXCEPT ![c] = Append(@, PaletteEngine(Undefined, clock))]
  /\ palPromise' = [palPromise EXCEPT ![c] = Pending]
  /\ result' = [result EXCEPT ![c] = Pending]
  /\ cbChain' = [cbChain EXCEPT ![c] = Chain(cb)]
  /\ UNCHANGED <<filenameArray, delLog, fs, clock, callerOpts, opts0, cbLog>>

generateGif(c, hasOpts) == GenerateGif(c, hasOpts, "none")

IsPalette(c) == call[c].op \in {"generatePalette", "generateGif"}
PalTime(c) == engines[c][1].args.output[3]

GifFrame == UNCHANGED <<call, conf, filenameArray, clock, callerOpts, opts0, cbLog, cbChain>>

\* function complete(), lines 196-198, on the palette engine's 'end': the
\* engine has written its output file (-y: over whatever was there). The
\* promise generatePalette returns is the caller's when the operation is
\* generatePalette
OnPaletteEnd(c) ==
  LET outcome == Resolved(engines[c][1].args.output)
  IN  /\ engines' = Notify(c, 1, "end")
      /\ palPromise' = [palPromise EXCEPT ![c] = Settle(@, outcome)]
      /\ result' = [result EXCEPT ![c] =
                      IF call[c].op = "generatePalette" THEN Settle(@, outcome) ELSE @]
      /\ fs' = IF Len(engines[c][1].log) = 0 THEN [fs EXCEPT ![PalTime(c)] = c] ELSE fs
      /\ UNCHANGED delLog
      /\ GifFrame

\* reject, line 212, on the palette engine's 'error'; in generateGif the
\* rejection passes through .then(createGif), line 301
OnPaletteError(c, e) ==
  /\ engines' = Notify(c, 1, e)
  /\ result' = [result EXCEPT ![c] =
                  IF palPromise[c].state = "pending" THEN Settle(@, Rejected(Err(e))) ELSE @]
  /\ palPromise' = [palPromise EXCEPT ![c] = Settle(@, Rejected(Err(e)))]
  /\ UNCHANGED <<delLog, fs>>
  /\ GifFrame

completePalette(c) == IsPalette(c) /\ Running(c, 1) /\ OnPaletteEnd(c)
rejectPalette(c, e) == IsPalette(c) /\ Running(c, 1) /\ OnPaletteError(c, e)

\* createGif attached as the handler of both outcomes of the palette promise
createGifAnyway(c) ==
  /\ call[c].op = "generateGif"
  /\ palPromise[c].state \in {"resolved", "rejected"}
  /\ Len(engines[c]) = 1
  /\ engines' = [engines EXCEPT ![c] =
       Append(@, Engine("gif",
         [inputOptions |-> TimeOptions(conf[c]),
          outputOptions |-> <<<<"-i", palPromise[c].value>>,
                              <<"-filter_complex", conf[c].fps, conf[c].speedMultiplier,
                                conf[c].scale>>>>,
          output |-> GifOutput(conf[c], call[c].at)]))]
  /\ UNCHANGED <<palPromise, result, delLog, fs>>
  /\ GifFrame

\* function createGif(paletteFilePath), lines 269-298: the .then handler of
\* the palette promise, run once
createGif(c) ==
  /\ call[c].op = "generateGif"
  /\ palPromise[c].state = "resolved"
  /\ Len(engines[c]) = 1
  /\ engines' = [engines EXCEPT ![c] =
       Append(@, Engine("gif",
         [inputOptions |-> TimeOptions(conf[c]),
          outputOptions |-> <<<<"-i", palPromise[c].value>>,
                              <<"-filter_complex", conf[c].fps, conf[c].speedMultiplier,
                                conf[c].scale>>>>,
          output |-> GifOutput(conf[c], call[c].at)]))]
  /\ UNCHANGED <<palPromise, result, delLog, fs>>
  /\ GifFrame

\* function complete(), lines 281-288, on the gif engine's 'end'. d.sync may
\* throw: the exception leaves complete() before resolve(output)
OnGifEnd(c, delThrows) ==
  LET deletes == conf[c].deletePalette = "true"
  IN  /\ delThrows => deletes
      /\ engines' = Notify(c, 2, "end")
      /\ delLog' = [delLog EXCEPT ![c] = IF deletes THEN Append(@, palPromise[c].value) ELSE @]
      /\ fs' = IF deletes /\ ~delThrows THEN [fs EXCEPT ![palPromise[c].value[3]] = 0] ELSE fs
      /\ result' = [result EXCEPT ![c] =
                      IF delThrows THEN @ ELSE Settle(@, Resolved(engines[c][2].args.output))]
      /\ UNCHANGED palPromise
      /\ GifFrame

\* an error handler that cleans the palette file up as complete() does
OnGifErrorCleaning(c, e) ==
  /\ engines' = Notify(c, 2, e)
  /\ result' = [result EXCEPT ![c] = Settle(@, Rejected(Err(e)))]
  /\ delLog' = [delLog EXCEPT ![c] = Append(@, palPromise[c].value)]
  /\ fs' = [fs EXCEPT ![palPromise[c].value[3]] = 0]
  /\ UNCHANGED palPromise
  /\ GifFrame

\* reject, line 294, on the gif engine's 'error'
OnGifError(c, e) ==
  /\ engines' = Notify(c, 2, e)
  /\ result' = [result EXCEPT ![c] = Settle(@, Rejected(Err(e)))]
  /\ UNCHANGED <<palPromise, delLog, fs>>
  /\ GifFrame

completeGif(c, delThrows) == Running(c, 2) /\ OnGifEnd(c, delThrows)
rejectGif(c, e) == Running(c, 2) /\ OnGifError(c, e)

\* Date.now() advances
Tick ==
  /\ clock < MaxClock
  /\ clock' = clock + 1
  /\ UNCHANGED <<call, conf, engines, filenameArray, palPromise, result, delLog, fs,
                 callerOpts, opts0, cbLog, cbChain>>

InitGif == InitWith(GifOpts)

NextGif ==
  \/ Tick
  \/ \E c \in Calls :
       \/ \E h \in BOOLEAN : generatePalette(c, h)
       \/ \E h \in BOOLEAN : generateGif(c, h)
       \/ completePalette(c)
       \/ \E e \in Errors : rejectPalette(c, e)
       \/ createGif(c)
       \/ \E t \in BOOLEAN : completeGif(c, t)
       \/ \E e \in Errors : rejectGif(c, e)

SpecGif == InitGif /\ [][NextGif]_vars

\* ------------------------------------------------- callback-style adapters
\* generateCb, generateOneByPercentCb, generatePaletteCb, generateGifCb:
\* callback = cb || opts, then operation(opts).then(...).catch(callback).
\* cb is "returns" or "throws": what the completion function does when it is
\* handed a result. With hasOpts = FALSE the callback is the only argument:
\* it is the opts of the operation, and has no options of its own.
generateCb(c, hasOpts, cb) == Generate(c, hasOpts, cb)
generateOneByPercentCb(c, percent, hasOpts, cb) == GenerateOneByPercent(c, percent, hasOpts, cb)
generatePaletteCb(c, hasOpts, cb) == GeneratePalette(c, hasOpts, cb)
generateGifCb(c, hasOpts, cb) == GenerateGif(c, hasOpts, cb)

CbFrame == UNCHANGED <<call, conf, engines, filenameArray, palPromise, result, delLog, fs,
                       clock, callerOpts, opts0>>

\* .then(result => callback(null, result)), lines 92, 163, 236, 321
thenCallback(c) ==
  /\ cbChain[c] = "pending"
  /\ result[c].state = "resolved"
  /\ cbLog' = [cbLog EXCEPT ![c] = Append(@, [err |-> <<"null">>, res |-> result[c].value])]
  /\ cbChain' = [cbChain EXCEPT ![c] = IF call[c].cb = "throws" THEN "thenThrew" ELSE "done"]
  /\ CbFrame

\* .catch(callback), lines 93, 164, 237, 322: handles the operation's
\* rejection and whatever the .then handler threw
catchCallback(c) ==
  /\ \/ cbChain[c] = "pending" /\ result[c].state = "rejected"
     \/ cbChain[c] = "thenThrew"
  /\ cbLog' = [cbLog EXCEPT ![c] =
       Append(@, [err |-> IF cbChain[c] = "thenThrew" THEN Err("thrown by callback")
                          ELSE result[c].value,
                  res |-> <<"undefined">>])]
  /\ cbChain' = [cbChain EXCEPT ![c] = "done"]
  /\ CbFrame

CbKinds == {"returns", "throws"}

\* the adapters add nothing that reads the clock: Date.now() stays put here
InitCb == InitWith({[count |-> 5], [deletePalette |-> "false"]})

NextCb ==
  \E c \in Calls :
       \/ \E h \in BOOLEAN, k \in CbKinds : generateCb(c, h, k)
       \/ \E p \in Percents, h \in BOOLEAN, k \in CbKinds : generateOneByPercentCb(c, p, h, k)
       \/ \E h \in BOOLEAN, k \in CbKinds : generatePaletteCb(c, h, k)
       \/ \E h \in BOOLEAN, k \in CbKinds : generateGifCb(c, h, k)
       \/ \E fns \in FileLists : filenames(c, fns)
       \/ complete(c)
       \/ \E e \in Errors : reject(c, e)
       \/ completePalette(c)
       \/ \E e \in Errors : rejectPalette(c, e)
       \/ createGif(c)
       \/ \E t \in BOOLEAN : completeGif(c, t)
       \/ \E e \in Errors : rejectGif(c, e)
       \/ thenCallback(c)
       \/ catchCallback(c)

SpecCb == InitCb /\ [][NextCb]_vars

\* ------------------------------ an engine that notifies more than once
\* 'end' after 'error' and 'error' after 'end': the same handlers run again
completeLate(c) == IsThumb(c) /\ Late(c, 1, "end") /\ OnComplete(c)
rejectLate(c, e) == IsThumb(c) /\ Late(c, 1, "error") /\ OnError(c, e)
completePaletteLate(c) == IsPalette(c) /\ Late(c, 1, "end") /\ OnPaletteEnd(c)
rejectPaletteLate(c, e) == IsPalette(c) /\ Late(c, 1, "error") /\ OnPaletteError(c, e)
completeGifLate(c, delThrows) == Late(c, 2, "end") /\ OnGifEnd(c, delThrows)
rejectGifLate(c, e) == Late(c, 2, "error") /\ OnGifError(c, e)

InitAnyNotify == InitWith({[deletePalette |-> "false"]})

NextAnyNotify ==
  \/ Tick
  \/ \E c \in Calls :
       \/ \E h \in BOOLEAN : generate(c, h)
       \/ \E h \in BOOLEAN : generatePalette(c, h)
       \/ \E h \in BOOLEAN : generateGif(c, h)
       \/ \E fns \in FileLists : filenames(c, fns)
       \/ complete(c)
       \/ \E e \in Errors : reject(c, e)
       \/ completePalette(c)
       \/ \E e \in Errors : rejectPalette(c, e)
       \/ createGif(c)
       \/ \E t \in BOOLEAN : completeGif(c, t)
       \/ \E e \in Errors : rejectGif(c, e)
       \/ completeLate(c)
       \/ \E e \in Errors : rejectLate(c, e)
       \/ completePaletteLate(c)
       \/ \E e \in Errors : rejectPaletteLate(c, e)
       \/ \E t \in BOOLEAN : completeGifLate(c, t)
       \/ \E e \in Errors : rejectGifLate(c, e)

SpecAnyNotify == InitAnyNotify /\ [][NextAnyNotify]_vars

\* ================================================================== claims
GifCalls == {c \in Calls : call[c].op = "generateGif"}
PercentCalls == {c \in Calls : call[c].op = "generateOneByPercent"}
\* the first terminal notification of engine invocation i of call c
First(c, i) == engines[c][i].log[1]
Notified(c, i) == Started(c, i) /\ engines[c][i].log # <<>>
Ended(c, i) == Notified(c, i) /\ First(c, i) = "end"
Failed(c, i) == Notified(c, i) /\ First(c, i) # "end"

\* C1: generateOneByPercent with a percent outside [0,100] never invokes the
\* engine and fails with 'Percent must be a value from 0-100'; with a percent
\* inside [0,100], 0 and 100 included, it invokes the engine exactly once,
\* with count = 1 and the single timestamp '<percent>%' whatever the caller's
\* options hold, and on the engine's success yields the last element of the
\* reported filename list (undefined when the list is empty).
C1_OneByPercent ==
  \A c \in PercentCalls :
    LET p == call[c].percent
    IN  IF p < 0 \/ p > 100
        THEN /\ engines[c] = <<>>
             /\ result[c] = Rejected(PercentError)
        ELSE /\ Len(engines[c]) = 1
             /\ engines[c][1].kind = "screenshots"
             /\ engines[c][1].args.count = 1
             /\ engines[c][1].args.timestamps = <<PercentStr(p)>>
             /\ Ended(c, 1) =>
                  result[c] = Resolved(IF engines[c][1].filenames = <<>> THEN <<"undefined">>
                                       ELSE <<"file", engines[c][1].filenames[
                                                        Len(engines[c][1].filenames)]>>)

\* a boundary percent given options that carry their own count and
\* timestamps has succeeded with files, next to an out-of-range call
C1_Witness ==
  \E c, d \in PercentCalls :
    /\ call[c].percent \in {0, 100}
    /\ call[c].hasOpts
    /\ "timestamps" \in DOMAIN opts0
    /\ Ended(c, 1)
    /\ engines[c][1].filenames # <<>>
    /\ call[d].percent \in {-1, 101}
    /\ result[d].state = "rejected"

\* C6: generate with no options asks the engine for count = 10 with the
\* default filename pattern; on 'end' it yields exactly the list the
\* filenames notification reported, in that order; on 'error' it yields that
\* error and no filenames, whatever filenames were reported before.
C6_GenerateDefaults ==
  \A c \in Calls :
    (call[c].op = "generate" /\ ~call[c].hasOpts) =>
      /\ Len(engines[c]) = 1
      /\ engines[c][1].kind = "screenshots"
      /\ engines[c][1].args.count = 10
      /\ engines[c][1].args.filename = "%b-thumbnail-%r-%000i"
      /\ Ended(c, 1) => result[c] = Resolved(<<"files", engines[c][1].filenames>>)
      /\ Failed(c, 1) => result[c] = Rejected(Err(First(c, 1)))
      /\ ~Notified(c, 1) => result[c] = Pending

\* one generate() failed after filenames were reported, one succeeded
C6_Witness ==
  \E c, d \in Calls :
    /\ call[c].op = "generate" /\ ~call[c].hasOpts
    /\ Failed(c, 1)
    /\ engines[c][1].filenames # <<>>
    /\ call[d].op = "generate" /\ ~call[d].hasOpts
    /\ Ended(d, 1)
    /\ engines[d][1].filenames # <<>>

\* the settings an operation resolves from the options as first supplied
SettingsFrom(c) ==
  assignIn(Ref(DefaultSettings), IF call[c].hasOpts THEN Ref(opts0) ELSE Undefined)

\* C10: no call alters the caller's options record, so every generate call
\* resolves its defaults overridden by the options as originally supplied.
C10_NoContamination ==
  /\ callerOpts = opts0
  /\ \A c \in Calls : call[c].op = "generate" => conf[c] = SettingsFrom(c)

\* C2: in generateGif, once the palette step's error notification has fired,
\* generateGif has failed with that same error and the gif-building engine
\* is never run.
C2_PaletteErrorStopsGif ==
  \A c \in GifCalls :
    Failed(c, 1) =>
      /\ result[c] = Rejected(Err(First(c, 1)))
      /\ Len(engines[c]) = 1

\* a generateGif call with options whose palette step failed
C2_Witness ==
  \E c \in GifCalls : call[c].hasOpts /\ Failed(c, 1) /\ result[c].state = "rejected"

\* the caller said deletePalette: false, explicitly
ExplicitlyFalse(c) ==
  /\ call[c].hasOpts
  /\ "deletePalette" \in DOMAIN opts0
  /\ opts0.deletePalette = "false"

\* C3: once the palette step and the gif step have both succeeded, the
\* deletion utility has been invoked with the palette path unless the caller
\* passed deletePalette: false, and has not been invoked if the caller did.
C3_DeleteUnlessFalse ==
  \A c \in GifCalls :
    (Ended(c, 1) /\ Ended(c, 2)) =>
      delLog[c] = IF ExplicitlyFalse(c) THEN <<>> ELSE <<engines[c][1].args.output>>

\* C7: whenever the gif-building invocation reports success, generateGif
\* yields its output path, whether the deletion succeeds or throws.
C7_DeleteFailureNotSurfaced ==
  \A c \in GifCalls :
    Ended(c, 2) => result[c] = Resolved(engines[c][2].args.output)

\* no other call's palette file has the path of c's
OwnPath(c) ==
  \A d \in Calls \ {c} : (IsPalette(d) /\ Started(d, 1)) => PalTime(d) # PalTime(c)

\* C8: the deletion utility is invoked only after both the palette step and
\* the gif step have reported success; when the gif step fails, generateGif
\* fails with that error, nothing was deleted and the palette file is still
\* on disk.
C8_CleanupOnlyOnSuccess ==
  \A c \in GifCalls :
    /\ delLog[c] # <<>> => (Ended(c, 1) /\ Ended(c, 2))
    /\ Failed(c, 1) => delLog[c] = <<>>
    /\ Failed(c, 2) =>
         /\ delLog[c] = <<>>
         /\ result[c] = Rejected(Err(First(c, 2)))
         /\ OwnPath(c) => fs[PalTime(c)] = c

\* a generateGif call that would delete its palette, whose gif step failed
\* with the palette file still there
C8_Witness ==
  \E c \in GifCalls :
    /\ conf[c].deletePalette = "true"
    /\ Failed(c, 2)
    /\ fs[PalTime(c)] = c

\* the palette step of c has succeeded and its gif step is not over
NeedsPalette(c) == Ended(c, 1) /\ ~Notified(c, 2)
\* no other call made its palette path from the timestamp c made its from
OwnTimestamp(c) ==
  \A d \in Calls \ {c} : IsPalette(d) => call[d].at # call[c].at

\* C9: a generateGif call whose palette path was made from a timestamp no
\* other call used finds its palette file as its palette step left it, from
\* that step's success until its own gif step's terminal notification.
C9_PaletteIsolated ==
  \A c \in GifCalls :
    (NeedsPalette(c) /\ OwnTimestamp(c)) => fs[engines[c][1].args.output[3]] = c

\* two generateGif calls made at different times: one has finished and
\* deleted its palette while the other's gif step is running
C9_Witness ==
  \E c, d \in GifCalls :
    /\ call[c].at # call[d].at
    /\ Running(c, 2)
    /\ fs[PalTime(c)] = c
    /\ delLog[d] # <<>>
    /\ result[d].state = "resolved"

\* C4: a callback-style adapter invokes the completion function at most
\* once, and once its promise chain is over exactly once: with (null,
\* result) when the operation succeeded, with the error when it failed.
C4_CallbackOnce ==
  \A c \in Calls :
    call[c].cb # "none" =>
      /\ Len(cbLog[c]) <= 1
      /\ cbChain[c] = "done" =>
           /\ Len(cbLog[c]) = 1
           /\ result[c].state = "resolved" =>
                cbLog[c][1] = [err |-> <<"null">>, res |-> result[c].value]
           /\ result[c].state = "rejected" => cbLog[c][1].err = result[c].value

\* the promise engine invocation i of call c settles
PromiseOf(c, i) ==
  IF call[c].op = "generateGif" /\ i = 1 THEN palPromise[c] ELSE result[c]
\* what it resolves to on success
SuccessOf(c, i) ==
  IF engines[c][i].kind = "screenshots"
  THEN ThumbValue(c, engines[c][1].filenames)
  ELSE engines[c][i].args.output

\* C5: for every engine invocation and any sequence of end/error
\* notifications, as soon as a terminal notification has been delivered the
\* pending result is settled, and stays settled the way the first one says:
\* resolved if it was 'end', failed with that error if it was 'error'.
C5_FirstNotificationSettles ==
  \A c \in Calls :
    \A i \in 1..Len(engines[c]) :
      Notified(c, i) =>
        PromiseOf(c, i) = IF First(c, i) = "end" THEN Resolved(SuccessOf(c, i))
                          ELSE Rejected(Err(First(c, i)))
====
